---- MODULE Spec2Model ----
(***************************************************************************)
(* Model of the OpenQuake engine calculators:                              *)
(*   - the classical PSHA hazard calculator (generate_curves, the          *)
(*     map_reduce driven ClassicalHazardCalculator.execute and its         *)
(*     reduction multiply_curves),                                         *)
(*   - the scenario hazard calculator (task_arg_gen, compute_gmfs,         *)
(*     save_gmf) and the ScenarioGetter that reads what it stored.         *)
(*                                                                         *)
(* Probabilities are exact reals of the form  M  or  1 - M  where M is 0   *)
(* or a product of powers, with non-negative rational exponents, of the    *)
(* rationals in Bases.  The bases are multiplicatively independent, so two *)
(* such numbers in normal form are equal exactly when their                *)
(* representations are equal.  Floating-point rounding is not modelled.    *)
(***************************************************************************)
EXTENDS Integers, Naturals, Sequences, FiniteSets, TLC

(***************************************************************************)
(* Bounds of the model.                                                    *)
(***************************************************************************)
NSites == 2
NLevels == 3
NImts == 2
NRlzs == 2
MaxSources == 2
MaxBlockSize == 2
NLtPaths == 2
MaxTasks == 3
MaxSeed == 2
MaxRuns == 2

\* exceedance probabilities (poes) are multiples of 1/PoeDen
PoeDen == 2

Sites == 1..NSites
Levels == 1..NLevels
Imts == 1..NImts
Rlzs == 1..NRlzs

Max(a, b) == IF a >= b THEN a ELSE b
Min(a, b) == IF a <= b THEN a ELSE b

(***************************************************************************)
(* Exact arithmetic.                                                       *)
(* A number is [c, z, e]:  z => the monomial is 0, otherwise the monomial  *)
(* is  PROD_b Bases[b] ^ (e[b] / PoeDen);  c => the number is              *)
(* 1 - monomial, otherwise the monomial itself.  0 and 1 are always kept   *)
(* as plain monomials (c = FALSE).  NotANumber stands for every real the   *)
(* representation cannot hold (the product of two proper complements); no  *)
(* state of the program contains it.                                       *)
(***************************************************************************)
Bases == << [n |-> 9, d |-> 10], [n |-> 3, d |-> 4] >>
BaseIdx == 1..Len(Bases)
NoExp == [b \in BaseIdx |-> 0]

Zero == [c |-> FALSE, z |-> TRUE, e |-> NoExp]
One == [c |-> FALSE, z |-> FALSE, e |-> NoExp]
\* the rational Bases[b], as a number
BaseNum(b) == [c |-> FALSE, z |-> FALSE,
               e |-> [x \in BaseIdx |-> IF x = b THEN PoeDen ELSE 0]]

NotANumber == [c |-> TRUE, z |-> TRUE, e |-> NoExp]

IsZero(x) == x = Zero
IsOne(x) == x = One

\* 1 - x
OneMinus(x) ==
    IF x = NotANumber THEN NotANumber
    ELSE IF IsZero(x) THEN One
    ELSE IF IsOne(x) THEN Zero
    ELSE [x EXCEPT !.c = ~x.c]

\* x * y
Times(x, y) ==
    IF x = NotANumber \/ y = NotANumber THEN NotANumber
    ELSE IF IsZero(x) \/ IsZero(y) THEN Zero
    ELSE IF IsOne(x) THEN y
    ELSE IF IsOne(y) THEN x
    ELSE IF x.c \/ y.c THEN NotANumber
    ELSE [c |-> FALSE, z |-> FALSE, e |-> [b \in BaseIdx |-> x.e[b] + y.e[b]]]

\* x ** (q / PoeDen) for a monomial x; as in Python, 0 ** 0 = 1
Power(x, q) ==
    IF x = NotANumber THEN NotANumber
    ELSE IF q = 0 THEN One
    ELSE IF IsZero(x) THEN Zero
    ELSE IF x.c THEN NotANumber
    ELSE [c |-> FALSE, z |-> FALSE,
          e |-> [b \in BaseIdx |-> (x.e[b] * q) \div PoeDen]]

RECURSIVE IntPow(_, _)
IntPow(a, k) == IF k = 0 THEN 1 ELSE a * IntPow(a, k - 1)

RECURSIVE ProdOver(_, _)
\* PROD_{b in 1..k} f[b]
ProdOver(f, k) == IF k = 0 THEN 1 ELSE f[k] * ProdOver(f, k - 1)

\* monomial order: m1 <= m2 as real numbers (both with c = FALSE)
MonoLeq(m1, m2) ==
    IF m1.z THEN TRUE
    ELSE IF m2.z THEN FALSE
    ELSE IF \A b \in BaseIdx : m1.e[b] >= m2.e[b] THEN TRUE
    ELSE IF \A b \in BaseIdx : m1.e[b] <= m2.e[b] THEN FALSE
    ELSE \* compare the PoeDen-th powers by cross multiplication
         LET up(b) == Max(0, m1.e[b] - m2.e[b])
             dn(b) == Max(0, m2.e[b] - m1.e[b])
             lhs == ProdOver([b \in BaseIdx |->
                       IntPow(Bases[b].n, up(b)) * IntPow(Bases[b].d, dn(b))],
                       Len(Bases))
             rhs == ProdOver([b \in BaseIdx |->
                       IntPow(Bases[b].d, up(b)) * IntPow(Bases[b].n, dn(b))],
                       Len(Bases))
         IN lhs <= rhs

Mono(x) == [x EXCEPT !.c = FALSE]

\* x <= y as real numbers: two monomials, two complements, or a proper
\* complement (which lies strictly between 0 and 1) against 0 or 1
Leq(x, y) ==
    CASE x = NotANumber \/ y = NotANumber -> FALSE
      [] OTHER ->
    CASE ~x.c /\ ~y.c -> MonoLeq(x, y)
      [] x.c /\ y.c -> MonoLeq(Mono(y), Mono(x))
      [] x.c /\ ~y.c /\ (IsZero(y) \/ IsOne(y)) -> IsOne(y)
      [] ~x.c /\ y.c /\ (IsZero(x) \/ IsOne(x)) -> IsZero(x)

\* 0 <= x <= 1: the bases lie in (0, 1), so a monomial is at most 1 exactly
\* when it is at most the empty product
InUnitInterval(x) == x # NotANumber /\ (x.z \/ MonoLeq(Mono(x), One))

\* x = n / d for integers n, d (a number with a fractional exponent is
\* irrational)
EqRat(x, n, d) ==
    IF x = NotANumber THEN FALSE
    ELSE IF x.z THEN n = 0
    ELSE /\ \A b \in BaseIdx : x.e[b] % PoeDen = 0
         /\ LET num == ProdOver([b \in BaseIdx |->
                          IntPow(Bases[b].n, x.e[b] \div PoeDen)], Len(Bases))
                den == ProdOver([b \in BaseIdx |->
                          IntPow(Bases[b].d, x.e[b] \div PoeDen)], Len(Bases))
            IN IF x.c THEN (den - num) * d = n * den
                      ELSE num * d = n * den

(***************************************************************************)
(* Ruptures and the ground-motion model (external collaborators).          *)
(* A rupture is identified by its kind; the kind fixes its occurrence      *)
(* probability and, through the GSIM of the realization, its probabilities *)
(* of exceedance (non-increasing along the levels).                        *)
(***************************************************************************)
RuptureKinds == {"A", "B", "Z", "C", "N"}

\* rupture.get_probability_one_or_more_occurrences()
Prob(kind) ==
    CASE kind = "A" -> OneMinus(BaseNum(1))     \* 0.1
      [] kind = "B" -> OneMinus(BaseNum(2))     \* 0.25
      [] kind = "Z" -> OneMinus(BaseNum(1))     \* 0.1, too far from every site
      [] kind = "C" -> One                      \* certain
      [] kind = "N" -> Zero                     \* never occurs

\* a poe decaying with the level, the distance and the attenuation
Decay(l, shift) == Max(0, Min(PoeDen, PoeDen + 1 - l - shift))

\* gsim.get_poes(sctx, rctx, dctx, imt, imtls, truncation_level)[site][level],
\* in units of 1/PoeDen; gsim is the GSIM of the realization
GetPoes(gsim, kind, imt, s, l) ==
    CASE kind = "A" -> 1                        \* 0.5 everywhere
      [] kind = "B" -> Decay(l, (s - 1) + (gsim - 1) + (imt - 1))
      [] kind = "Z" -> 0
      [] kind = "C" -> Decay(l, (s - 1) + (imt - 1))
      [] kind = "N" -> PoeDen

\* what a source produces when general.generate_ruptures processes it
SourceKinds == { <<>>, <<"A">>, <<"A", "A">>, <<"B", "Z">>, <<"C">>, <<"N", "B">> }

RECURSIVE SeqsUpTo(_, _)
\* the sequences over S of length 1..n
SeqsUpTo(S, n) ==
    IF n = 0 THEN {}
    ELSE SeqsUpTo(S, n - 1) \cup [1..n -> S]

(***************************************************************************)
(* Grids: numpy arrays [site][level].                                      *)
(***************************************************************************)
\* the placeholder None, kept comparable with a grid: the array with no rows
None == << >>
Ones == [s \in Sites |-> [l \in Levels |-> One]]
Zeros == [s \in Sites |-> [l \in Levels |-> Zero]]
AllZero(grid) == \A s \in Sites, l \in Levels : IsZero(grid[s][l])

RECURSIVE NonExceedance_assign(_, _, _, _)
\* NonExceedance with "curves[imt] = ..." for "curves[imt] *= ..." at line 72
NonExceedance_assign(ruptures, k, rlz, imt) ==
    IF k = 0 THEN Ones
    ELSE LET prob == Prob(ruptures[k])
         IN [s \in Sites |-> [l \in Levels |->
                Power(OneMinus(prob), GetPoes(rlz, ruptures[k], imt, s, l))]]

RECURSIVE NonExceedance(_, _, _, _)
\* curves[imt] after the first k ruptures of the block (lines 62-74)
NonExceedance(ruptures, k, rlz, imt) ==
    IF k = 0 THEN Ones
    ELSE LET prev == NonExceedance(ruptures, k - 1, rlz, imt)
             prob == Prob(ruptures[k])
         IN [s \in Sites |-> [l \in Levels |->
                Times(prev[s][l],
                      Power(OneMinus(prob), GetPoes(rlz, ruptures[k], imt, s, l)))]]

\* curve_or_placeholder with .any() for .all() at line 79
curve_or_placeholder_any(grid) ==
    IF \E s \in Sites, l \in Levels : IsZero(grid[s][l]) THEN None ELSE grid

\* the placeholder test of lines 79-85
curve_or_placeholder(grid) == IF AllZero(grid) THEN None ELSE grid

\* generate_curves(job_id, ruptures, rlzs, ltp): curves_by_rlz
generate_curves(ruptures) ==
    [rlz \in Rlzs |-> [imt \in Imts |->
        LET ne == NonExceedance(ruptures, Len(ruptures), rlz, imt)
            grid == [s \in Sites |-> [l \in Levels |-> OneMinus(ne[s][l])]]
        IN curve_or_placeholder(grid)]]

\* combine without the leading "1. -"
combine_no_complement(a, m) ==
    [s \in Sites |-> [l \in Levels |->
        Times(OneMinus(a[s][l]), OneMinus(m[s][l]))]]

\* acc[i][j] = 1. - (1. - acc[i][j]) * (1. - matrix)
combine(a, m) ==
    [s \in Sites |-> [l \in Levels |->
        OneMinus(Times(OneMinus(a[s][l]), OneMinus(m[s][l])))]]

\* multiply_curves storing the new matrix instead of combining it
multiply_curves_overwrite(acc, curves_by_rlz) ==
    [i \in Rlzs |-> [j \in Imts |->
        IF curves_by_rlz[i][j] # None
        THEN curves_by_rlz[i][j]
        ELSE acc[i][j]]]

\* multiply_curves reading a placeholder as "this block found no exceedance"
\* and clearing the entry
multiply_curves_clear(acc, curves_by_rlz) ==
    [i \in Rlzs |-> [j \in Imts |->
        IF curves_by_rlz[i][j] # None
        THEN combine(acc[i][j], curves_by_rlz[i][j])
        ELSE Zeros]]

\* ClassicalHazardCalculator.multiply_curves(acc, curves_by_rlz), without
\* its progress report
multiply_curves(acc, curves_by_rlz) ==
    [i \in Rlzs |-> [j \in Imts |->
        IF curves_by_rlz[i][j] # None
        THEN combine(acc[i][j], curves_by_rlz[i][j])
        ELSE acc[i][j]]]

\* ClassicalHazardCalculator.add_lists(acc, lst), without its progress report
add_lists(acc, lst) == acc \o lst

\* an initial accumulator filled with ones
zeros_filled_with_ones == [rlz \in Rlzs |-> [imt \in Imts |-> Ones]]

\* the initial accumulator of the curves map_reduce
zeros == [rlz \in Rlzs |-> [imt \in Imts |-> Zeros]]

(***************************************************************************)
(* Collaborators of execute that are not in the source tree.               *)
(***************************************************************************)
RECURSIVE block_split(_, _)
\* general.BaseHazardCalculator.block_split: consecutive blocks of at most
\* bs items
block_split(items, bs) ==
    IF Len(items) = 0 THEN <<>>
    ELSE <<SubSeq(items, 1, Min(bs, Len(items)))>>
         \o block_split(SubSeq(items, bs + 1, Len(items)), bs)

RECURSIVE generate_ruptures(_)
\* general.generate_ruptures(job_id, srcs): the ruptures of a block of sources
generate_ruptures(srcs) ==
    IF Len(srcs) = 0 THEN <<>>
    ELSE Head(srcs) \o generate_ruptures(Tail(srcs))

(***************************************************************************)
(* State of ClassicalHazardCalculator.execute.                             *)
(***************************************************************************)
VARIABLES
    pc,         \* "loop" | "ruptures" | "curves" | "failed"
    ltpath,     \* number of logic-tree paths completely processed
    task_args,  \* the blocks of the map_reduce in progress
    pending,    \* indices of the tasks whose result is not yet reduced
    delivered,  \* the tasks reduced so far, in the order map_reduce got them
    ruptures,   \* accumulator of the generate_ruptures map_reduce
    curves,     \* accumulator of the generate_curves map_reduce
    num_tasks,  \* set by initialize_percent
    counter,    \* number of log_percent calls since initialize_percent
    reported    \* the last fraction reported, <<done, total>>, or <<>>

cvars == <<pc, ltpath, task_args, pending, delivered, ruptures, curves,
           num_tasks, counter, reported>>

progress == <<num_tasks, counter, reported>>

ClassicalInit ==
    /\ pc = "loop"
    /\ ltpath = 0
    /\ task_args = <<>>
    /\ pending = {}
    /\ delivered = <<>>
    /\ ruptures = <<>>
    /\ curves = <<>>
    /\ num_tasks = 0
    /\ counter = 0
    /\ reported = <<>>

\* self.initialize_percent(task, task_args)
initialize_percent(args) ==
    /\ num_tasks' = Len(args)
    /\ counter' = 0
    /\ reported' = reported

\* self.log_percent(): report the fraction of the task arguments completed
log_percent ==
    /\ counter' = counter + 1
    /\ reported' = <<counter + 1, num_tasks>>
    /\ num_tasks' = num_tasks

\* lines 100-105: next logic-tree path, dispatch of generate_ruptures
StartLtPath(sources, bs) ==
    /\ pc = "loop"
    /\ ltpath < NLtPaths
    /\ LET args == block_split(sources, bs)
       IN /\ task_args' = args
          /\ pending' = 1..Len(args)
          /\ delivered' = <<>>
          /\ initialize_percent(args)
    /\ ruptures' = <<>>
    /\ curves' = <<>>      \* not read again before line 112 rebinds it
    /\ pc' = "ruptures"
    /\ ltpath' = ltpath

\* ReduceRuptures with an add_lists that does not call log_percent
ReduceRuptures_no_log(t) ==
    /\ pc = "ruptures"
    /\ t \in pending
    /\ ruptures' = add_lists(ruptures, generate_ruptures(task_args[t]))
    /\ pending' = pending \ {t}
    /\ delivered' = Append(delivered, t)
    /\ UNCHANGED <<pc, ltpath, task_args, curves, progress>>

\* map_reduce delivers the result of task t to add_lists
ReduceRuptures(t) ==
    /\ pc = "ruptures"
    /\ t \in pending
    /\ ruptures' = add_lists(ruptures, generate_ruptures(task_args[t]))
    /\ log_percent
    /\ pending' = pending \ {t}
    /\ delivered' = Append(delivered, t)
    /\ UNCHANGED <<pc, ltpath, task_args, curves>>

\* lines 106-113: the ruptures map_reduce returned; dispatch generate_curves
StartCurves(bs) ==
    /\ pc = "ruptures"
    /\ pending = {}
    /\ LET args == block_split(ruptures, bs)
       IN /\ task_args' = args
          /\ pending' = 1..Len(args)
          /\ delivered' = <<>>
          /\ initialize_percent(args)
    /\ curves' = zeros
    /\ pc' = "curves"
    /\ UNCHANGED <<ltpath, ruptures>>

\* map_reduce delivers the result of task t to multiply_curves
ReduceCurves(t) ==
    /\ pc = "curves"
    /\ t \in pending
    /\ curves' = multiply_curves(curves, generate_curves(task_args[t]))
    /\ log_percent
    /\ pending' = pending \ {t}
    /\ delivered' = Append(delivered, t)
    /\ UNCHANGED <<pc, ltpath, task_args, ruptures>>

\* SaveHazardCurves in an execute that swallows the failure of map_reduce
SaveHazardCurves_after_failure ==
    /\ \/ pc = "curves" /\ pending = {}
       \/ pc = "failed" /\ curves # <<>>
    /\ pc' = "loop"
    /\ ltpath' = ltpath + 1
    /\ UNCHANGED <<task_args, pending, delivered, ruptures, curves, progress>>

\* line 114: the curves map_reduce returned; save_hazard_curves(curves, rlzs)
SaveHazardCurves ==
    /\ pc = "curves"
    /\ pending = {}
    /\ pc' = "loop"
    /\ ltpath' = ltpath + 1
    /\ UNCHANGED <<task_args, pending, delivered, ruptures, curves, progress>>

\* a task of the map_reduce in progress raises: map_reduce re-raises and
\* execute is left by the exception
TaskFailure(t) ==
    /\ pc \in {"ruptures", "curves"}
    /\ t \in pending
    /\ pc' = "failed"
    /\ UNCHANGED <<ltpath, task_args, pending, delivered, ruptures, curves,
                   progress>>

(***************************************************************************)
(* The scenario hazard calculator.                                         *)
(***************************************************************************)
BLOCK_SIZE == 1000

\* random.Random: a generator state is a number of 0..15 and every value it
\* draws lies in 0..MAX_SINT_32
RndStates == 0..15
\* random.Random(): the state comes from the entropy of the operating system
rnd_new(entropy) == entropy
\* rnd.seed(a) with the state left as it is
rnd_seed_ignored(state, a) == state
\* rnd.seed(a): the state becomes a function of a alone
rnd_seed(state, a) == (7 * a + 1) % 16
\* rnd.randint(0, models.MAX_SINT_32): <<value, next state>>
rnd_randint(state) ==
    LET next == (5 * state + 3) % 16
    IN <<next, next>>

RECURSIVE draw_seeds(_, _)
\* [rnd.randint(0, models.MAX_SINT_32) for _ in range(n)]
draw_seeds(state, n) ==
    IF n = 0 THEN << >>
    ELSE LET r == rnd_randint(state)
         IN <<r[1]>> \o draw_seeds(r[2], n - 1)

\* the number of the tasks rounded down
n_tasks_rounded_down(n_gmf, block_size) == n_gmf \div block_size

\* int(math.ceil(float(n_gmf) / block_size))
n_tasks_for(n_gmf, block_size) == (n_gmf + block_size - 1) \div block_size

\* ScenarioHazardCalculator.task_arg_gen(block_size): the task arguments
\* (job_id, [seed], rupture, gmf_id), job_id and rupture left out
task_arg_gen(entropy, random_seed, n_gmf, block_size, gmf_id) ==
    LET rnd == rnd_seed(rnd_new(entropy), random_seed)
        seeds == draw_seeds(rnd, n_tasks_for(n_gmf, block_size))
    IN [k \in 1..Len(seeds) |-> [task_seeds |-> <<seeds[k]>>, gmf_id |-> gmf_id]]

\* ground_motion_fields(..., realizations=BLOCK_SIZE)[imt][site]: the
\* BLOCK_SIZE values numpy draws for the site and the IMT once seeded with
\* np_seed, kept as one run of values
ground_motion_fields(np_seed, imt, s) ==
    [seed |-> np_seed, imt |-> imt, site |-> s, n |-> BLOCK_SIZE]

\* save_gmf(gmf_id, gmf_dict, sites): the GmfData rows of one task, in the
\* order they are added to the inserter; gmvs is a list of runs of values
save_gmf_rows(gmf_id, np_seed) ==
    LET row(k) ==
            LET imt == ((k - 1) \div NSites) + 1
                s == ((k - 1) % NSites) + 1
            IN [gmf_id |-> gmf_id, imt |-> imt, site_id |-> s,
                gmvs |-> <<ground_motion_fields(np_seed, imt, s)>>]
    IN [k \in 1..(NImts * NSites) |-> row(k)]

RECURSIVE get_gmvs(_, _, _, _)
\* ScenarioGetter.get_gmvs(gmf, site_id) of a getter for imt: the gmvs of
\* the matching rows, concatenated in the order the table returns them
\* (GmfData keeps nothing that tells the tasks of a container apart, so this
\* is the order in which they were committed)
get_gmvs(table, gmf_id, site_id, imt) ==
    IF Len(table) = 0 THEN << >>
    ELSE LET row == Head(table)
             rest == get_gmvs(Tail(table), gmf_id, site_id, imt)
         IN IF row.gmf_id = gmf_id /\ row.site_id = site_id /\ row.imt = imt
            THEN row.gmvs \o rest
            ELSE rest

NoPrev == [run |-> 0]

VARIABLES
    spc,        \* "new" | "pre_executed" | "executing" | "done" | "failed"
    run,        \* number of the calculation (1 or, when run again, 2)
    hc,         \* the job configuration: random_seed, n_gmf
    gmf,        \* id of the Gmf container created in pre_execute (0: None)
    sargs,      \* the task arguments task_arg_gen yielded
    spending,   \* indices of the compute_gmfs tasks that have not run yet
    gmf_data,   \* the committed GmfData rows of the container, in table order
    serror,     \* the exception that ended execute, if any
    prev        \* what the previous calculation left behind

svars == <<spc, run, hc, gmf, sargs, spending, gmf_data, serror, prev>>

ScenarioInit ==
    /\ spc = "new"
    /\ run = 1
    /\ hc = [random_seed |-> 0, n_gmf |-> 0]
    /\ gmf = 0
    /\ sargs = << >>
    /\ spending = {}
    /\ gmf_data = << >>
    /\ serror = ""
    /\ prev = NoPrev

\* the values n of number_of_ground_motion_fields tried: for each number of
\* tasks k, the smallest and the largest n that need k tasks
NGmfChoices ==
    UNION { {(k - 1) * BLOCK_SIZE + 1, k * BLOCK_SIZE} : k \in 1..MaxTasks }

\* ScenarioHazardCalculator.pre_execute: the Gmf container is created (and
\* committed) before any task runs
PreExecute(seed, n) ==
    /\ spc = "new"
    /\ run = 1
    /\ hc' = [random_seed |-> seed, n_gmf |-> n]
    /\ gmf' = run
    /\ spc' = "pre_executed"
    /\ UNCHANGED <<run, sargs, spending, gmf_data, serror, prev>>

\* ScenarioHazardCalculator.execute: parallelize consumes task_arg_gen, which
\* draws every seed before it yields the first task
Execute(entropy) ==
    /\ spc = "pre_executed"
    /\ sargs' = task_arg_gen(entropy, hc.random_seed, hc.n_gmf, BLOCK_SIZE, gmf)
    /\ spending' = 1..Len(sargs')
    /\ spc' = "executing"
    /\ UNCHANGED <<run, hc, gmf, gmf_data, serror, prev>>

\* compute_gmfs(job_id, task_seeds, rupture, gmf_id) runs to its end in some
\* worker: save_gmf commits the rows of the task in one transaction
ComputeGmfs(t) ==
    /\ spc = "executing"
    /\ t \in spending
    /\ spending' = spending \ {t}
    /\ IF Len(sargs[t].task_seeds) # 1
       THEN /\ serror' = "AssertionError"
            /\ spc' = "failed"
            /\ gmf_data' = gmf_data
       ELSE LET np_seed == sargs[t].task_seeds[1]   \* numpy.random.seed
            IN /\ gmf_data' = gmf_data \o save_gmf_rows(sargs[t].gmf_id, np_seed)
               /\ UNCHANGED <<spc, serror>>
    /\ UNCHANGED <<run, hc, gmf, sargs, prev>>

\* compute_gmfs raises (in ground_motion_fields or in save_gmf, whose
\* transaction is then rolled back); parallelize re-raises
ComputeGmfsFails(t) ==
    /\ spc = "executing"
    /\ t \in spending
    /\ spending' = spending \ {t}
    /\ serror' = "TaskFailure"
    /\ spc' = "failed"
    /\ UNCHANGED <<run, hc, gmf, sargs, gmf_data, prev>>

\* parallelize returns when every task has completed
ExecuteReturns ==
    /\ spc = "executing"
    /\ spending = {}
    /\ spc' = "done"
    /\ UNCHANGED <<run, hc, gmf, sargs, spending, gmf_data, serror, prev>>

\* what a reader of the container gets for every site and IMT
AllGmvs == [s \in Sites |-> [imt \in Imts |-> get_gmvs(gmf_data, gmf, s, imt)]]

\* a calculation is run again, as a new job with a new Gmf container (the
\* rows of the old container match no query on the new one and are left out)
RunAgain(seed, n) ==
    /\ spc \in {"done", "failed"}
    /\ run < MaxRuns
    /\ prev' = [run |-> run, outcome |-> spc,
                random_seed |-> hc.random_seed, n_gmf |-> hc.n_gmf,
                seeds |-> [k \in 1..Len(sargs) |-> sargs[k].task_seeds],
                gmvs |-> AllGmvs]
    /\ run' = run + 1
    /\ hc' = [random_seed |-> seed, n_gmf |-> n]
    /\ gmf' = run + 1
    /\ sargs' = << >>
    /\ spending' = {}
    /\ gmf_data' = << >>
    /\ serror' = ""
    /\ spc' = "pre_executed"

(***************************************************************************)
(* The hazard getters of the risk calculators.                             *)
(***************************************************************************)
\* the IMT the getter is built for, and another one stored in the same table
GetterImt == 1
OtherImt == 2

\* a GmfData row of the container gmf_id
GmfDataRow(gmf_id, site_id, imt, gmvs) ==
    [gmf_id |-> gmf_id, imt |-> imt, site_id |-> site_id, gmvs |-> gmvs]

RECURSIVE get_gmvs_warnings(_, _, _, _, _)
\* ScenarioGetter.get_gmvs: the warnings it logs. The test `if not gmvs` is
\* in the body of the loop over the matching rows and follows the extend, so
\* it runs once per matching row, on the values collected so far
get_gmvs_warnings(table, gmf_id, site_id, imt, gmvs) ==
    IF Len(table) = 0 THEN << >>
    ELSE LET row == Head(table)
         IN IF row.gmf_id = gmf_id /\ row.site_id = site_id /\ row.imt = imt
            THEN LET extended == gmvs \o row.gmvs
                 IN (IF extended = << >>
                     THEN <<[site_id |-> site_id, imt |-> imt]>>
                     ELSE << >>)
                    \o get_gmvs_warnings(Tail(table), gmf_id, site_id, imt,
                                         extended)
            ELSE get_gmvs_warnings(Tail(table), gmf_id, site_id, imt, gmvs)

\* [array] * n_assets
Repeat(x, n) == [k \in 1..n |-> x]

VARIABLES
    gpc,          \* "new" | "loop" | "returned"
    site_assets,  \* self.site_assets in iteritems order: <<site_id, assets>>
    gtable,       \* the GmfData table
    gcontainer,   \* id of the output container get_data is called with
    gpos,         \* number of the items of site_assets already visited
    all_assets,   \* the list get_data returns first
    all_gmvs,     \* the list get_data returns second
    glog          \* the warnings logged, in order

gvars == <<gpc, site_assets, gtable, gcontainer, gpos, all_assets, all_gmvs,
           glog>>

GetterInit ==
    /\ gpc = "new"
    /\ site_assets = << >>
    /\ gtable = << >>
    /\ gcontainer = 0
    /\ gpos = 0
    /\ all_assets = << >>
    /\ all_gmvs = << >>
    /\ glog = << >>

\* the assets of a site: one or two of them, named after the site
AssetsOf(s, n) == [k \in 1..n |-> 10 * s + k]
MaxAssetsPerSite == 2

\* the dictionaries site_id -> assets, as the sequence iteritems goes through
SiteAssetsChoices ==
    { sa \in SeqsUpTo({ <<s, AssetsOf(s, n)>> :
                            s \in Sites, n \in 1..MaxAssetsPerSite }, NSites) :
        /\ Len(sa) >= 1
        /\ \A i, j \in 1..Len(sa) : i # j => sa[i][1] # sa[j][1] }

\* what the table may hold for one site and the IMT of the getter: nothing, a
\* row without values, a row with values, or two rows
RowChoices(gmf_id, s) ==
    LET E == GmfDataRow(gmf_id, s, GetterImt, << >>)
        V == GmfDataRow(gmf_id, s, GetterImt, <<100 * s + 1>>)
        W == GmfDataRow(gmf_id, s, GetterImt, <<100 * s + 2>>)
    IN {<< >>, <<E>>, <<V>>, <<E, W>>, <<V, W>>}

RECURSIVE TableChoices(_, _)
\* the tables over the sites 1..n: the rows of each site as above, after one
\* row of another IMT and one of another container
TableChoices(gmf_id, n) ==
    IF n = 0
    THEN {<<GmfDataRow(gmf_id, 1, OtherImt, <<7>>),
            GmfDataRow(gmf_id + 1, 1, GetterImt, <<8>>)>>}
    ELSE { t \o r : t \in TableChoices(gmf_id, n - 1),
                    r \in RowChoices(gmf_id, n) }

\* ScenarioGetter.get_data is called on a getter built with site_assets
\* (HazardGetter.__init__ asserts that it is not empty)
GetDataStart(sa, table) ==
    /\ gpc = "new"
    /\ site_assets' = sa
    /\ gtable' = table
    /\ gcontainer' = 1
    /\ gpos' = 0
    /\ all_assets' = << >>
    /\ all_gmvs' = << >>
    /\ glog' = << >>
    /\ gpc' = "loop"

\* one turn of the loop of get_data over site_assets.iteritems()
GetDataSite ==
    /\ gpc = "loop"
    /\ gpos < Len(site_assets)
    /\ LET site_id == site_assets[gpos + 1][1]
           assets == site_assets[gpos + 1][2]
           n_assets == Len(assets)
           gmvs == get_gmvs(gtable, gcontainer, site_id, GetterImt)
       IN /\ all_assets' = all_assets \o assets
          /\ glog' = glog \o get_gmvs_warnings(gtable, gcontainer, site_id,
                                                GetterImt, << >>)
          /\ IF gmvs # << >>
             THEN all_gmvs' = all_gmvs \o Repeat(gmvs, n_assets)
             ELSE all_gmvs' = all_gmvs
    /\ gpos' = gpos + 1
    /\ UNCHANGED <<gpc, site_assets, gtable, gcontainer>>

\* get_data returns all_assets, all_gmvs
GetDataReturn ==
    /\ gpc = "loop"
    /\ gpos = Len(site_assets)
    /\ gpc' = "returned"
    /\ UNCHANGED <<site_assets, gtable, gcontainer, gpos, all_assets,
                   all_gmvs, glog>>

\* the getter is dropped and another one is built
GetterReset ==
    /\ gpc = "returned"
    /\ gpc' = "new"
    /\ UNCHANGED <<site_assets, gtable, gcontainer, gpos, all_assets,
                   all_gmvs, glog>>


\* what getter_orig(monitor) and getter_retro(monitor) may yield: triples
\* <<hazard id, assets, data>>
OrigItems == { <<1, <<11>>, "o1">>, <<2, <<21, 22>>, "o2">> }
RetroItems == { <<3, <<11>>, "r1">>, <<4, <<21, 22>>, "r2">> }
MaxItems == 3

VARIABLES
    bpc,        \* "new" | "running" | "done" | "raised"
    orig_gen,   \* the items getter_orig(monitor) yields
    retro_gen,  \* the items getter_retro(monitor) yields
    opos,       \* number of the items taken from orig_gen
    rpos,       \* number of the items taken from retro_gen
    yielded     \* the triples BCRGetter.__call__ has yielded

bvars == <<bpc, orig_gen, retro_gen, opos, rpos, yielded>>

BCRInit ==
    /\ bpc = "new"
    /\ orig_gen = << >>
    /\ retro_gen = << >>
    /\ opos = 0
    /\ rpos = 0
    /\ yielded = << >>

\* BCRGetter.__call__(monitor): the two generators are created
BCRCall(orig, retro) ==
    /\ bpc = "new"
    /\ orig_gen' = orig
    /\ retro_gen' = retro
    /\ opos' = 0
    /\ rpos' = 0
    /\ yielded' = << >>
    /\ bpc' = "running"

\* one turn of the loop with the StopIteration of the generators not caught
BCRNext_uncaught ==
    /\ bpc = "running"
    /\ IF opos = Len(orig_gen)
       THEN /\ bpc' = "raised"
            /\ UNCHANGED <<opos, rpos, yielded>>
       ELSE /\ opos' = opos + 1
            /\ IF rpos = Len(retro_gen)
               THEN /\ bpc' = "raised"
                    /\ UNCHANGED <<rpos, yielded>>
               ELSE LET o == orig_gen[opos + 1]
                        r == retro_gen[rpos + 1]
                    IN /\ rpos' = rpos + 1
                       /\ yielded' = Append(yielded, <<o[1], o[2], <<o[3], r[3]>>>>)
                       /\ UNCHANGED bpc
    /\ UNCHANGED <<orig_gen, retro_gen>>

\* one turn of the `while True` loop of BCRGetter.__call__: orig_gen.next(),
\* retro_gen.next(), yield; the StopIteration of either ends the generator
BCRNext ==
    /\ bpc = "running"
    /\ IF opos = Len(orig_gen)
       THEN /\ bpc' = "done"
            /\ UNCHANGED <<opos, rpos, yielded>>
       ELSE /\ opos' = opos + 1
            /\ IF rpos = Len(retro_gen)
               THEN /\ bpc' = "done"
                    /\ UNCHANGED <<rpos, yielded>>
               ELSE LET o == orig_gen[opos + 1]
                        r == retro_gen[rpos + 1]
                    IN /\ rpos' = rpos + 1
                       /\ yielded' = Append(yielded, <<o[1], o[2], <<o[3], r[3]>>>>)
                       /\ UNCHANGED bpc
    /\ UNCHANGED <<orig_gen, retro_gen>>

(***************************************************************************)
(* RiskCalculator.task_arg_gen.                                            *)
(***************************************************************************)
Taxonomies == {"A", "B"}
MaxSiteAssets == 3
MaxBlocks == 2

\* the assets stored for site s, in the order they are stored: asset k of the
\* site has the id 10 * s + k and the taxonomy taxs[k]
SiteAssetList(s, taxs) ==
    [k \in 1..Len(taxs) |-> [id |-> 10 * s + k, taxonomy |-> taxs[k]]]

RECURSIVE SiteAssetsTotalChoices(_)
\* rc.get_site_assets_dict: the dictionaries site_id -> assets over the sites
\* 1..n, as the sequence of <<site_id, assets>> that iteritems goes through
SiteAssetsTotalChoices(n) ==
    IF n = 0 THEN {<< >>}
    ELSE LET rest == SiteAssetsTotalChoices(n - 1)
         IN rest \cup
            { Append(d, <<n, SiteAssetList(n, taxs)>>) :
                  d \in rest, taxs \in SeqsUpTo(Taxonomies, MaxSiteAssets) }

\* site_assets_total[site_id]
Lookup(dict, site_id) ==
    LET k == CHOOSE k \in 1..Len(dict) : dict[k][1] = site_id
    IN dict[k][2]

\* the pairs of the sites that have more than one asset only
item_weight_pairs_filtered(site_assets_total) ==
    LET pairs == [k \in 1..Len(site_assets_total) |->
                     <<site_assets_total[k][1], Len(site_assets_total[k][2])>>]
        more_than_one(pair) == pair[2] > 1
    IN SelectSeq(pairs, more_than_one)

\* [(site_id, len(assets)) for site_id, assets in
\*  site_assets_total.iteritems()]
item_weight_pairs(site_assets_total) ==
    [k \in 1..Len(site_assets_total) |->
        <<site_assets_total[k][1], Len(site_assets_total[k][2])>>]

RECURSIVE TotalWeight(_)
TotalWeight(pairs) ==
    IF Len(pairs) = 0 THEN 0
    ELSE Head(pairs)[2] + TotalWeight(Tail(pairs))

RECURSIVE greedy_split(_, _, _)
\* the blocks of a greedy fill: an item that would take the block in
\* progress over max_weight starts a new block
greedy_split(pairs, max_weight, ws) ==
    IF Len(pairs) = 0
    THEN IF Len(ws) = 0 THEN << >> ELSE <<ws>>
    ELSE IF TotalWeight(ws) + Head(pairs)[2] > max_weight
         THEN (IF Len(ws) = 0 THEN << >> ELSE <<ws>>)
              \o greedy_split(Tail(pairs), max_weight, <<Head(pairs)>>)
         ELSE greedy_split(Tail(pairs), max_weight, Append(ws, Head(pairs)))

\* the weight bound of SequenceSplitter(nblocks): ceil(total / nblocks)
max_weight_of(pairs, nblocks) == (TotalWeight(pairs) + nblocks - 1) \div nblocks

\* general.SequenceSplitter(nblocks).split_on_max_weight(pairs): the blocks,
\* each a sequence of items
split_on_max_weight(nblocks, pairs) ==
    LET blocks == greedy_split(pairs, max_weight_of(pairs, nblocks), << >>)
    IN [b \in 1..Len(blocks) |->
           [k \in 1..Len(blocks[b]) |-> blocks[b][k][1]]]

RECURSIVE RunLength(_, _)
\* the length of the longest prefix of assets with the taxonomy key
RunLength(assets, key) ==
    IF Len(assets) = 0 \/ Head(assets).taxonomy # key THEN 0
    ELSE 1 + RunLength(Tail(assets), key)

RECURSIVE groupby(_)
\* itertools.groupby(assets, key=operator.attrgetter('taxonomy')): a new
\* group starts every time the key changes, <<key, group>>
groupby(assets) ==
    IF Len(assets) = 0 THEN << >>
    ELSE LET key == Head(assets).taxonomy
             n == RunLength(assets, key)
         IN <<<<key, SubSeq(assets, 1, n)>>>>
            \o groupby(SubSeq(assets, n + 1, Len(assets)))

\* taxonomy_site_assets = {}: no taxonomy, no site (a missing key reads as
\* the empty list)
EmptyTsa == [t \in Taxonomies |-> [s \in Sites |-> << >>]]

RECURSIVE add_groups(_, _, _, _, _)
\* the loop over the groups of one site: a group of a taxonomy that is left
\* out is skipped, any other is assigned to
\* taxonomy_site_assets[taxonomy][site_id]
add_groups(tsa, site_id, groups, taxonomies_from_model, risk_models) ==
    IF Len(groups) = 0 THEN tsa
    ELSE LET taxonomy == Head(groups)[1]
             assets == Head(groups)[2]
             next == IF taxonomies_from_model /\ taxonomy \notin risk_models
                     THEN tsa
                     ELSE [tsa EXCEPT ![taxonomy][site_id] = assets]
         IN add_groups(next, site_id, Tail(groups), taxonomies_from_model,
                       risk_models)

RECURSIVE taxonomy_site_assets_of(_, _, _, _, _)
\* the loop over the sites of one block
taxonomy_site_assets_of(tsa, site_ids, sat, from_model, risk_models) ==
    IF Len(site_ids) = 0 THEN tsa
    ELSE taxonomy_site_assets_of(
             add_groups(tsa, Head(site_ids),
                        groupby(Lookup(sat, Head(site_ids))),
                        from_model, risk_models),
             Tail(site_ids), sat, from_model, risk_models)

VARIABLES
    rpc,                \* "new" | "yielding" | "exhausted"
    site_assets_total,  \* rc.get_site_assets_dict(...)
    rc,                 \* taxonomies_from_model, risk_models, nblocks
    blocks,             \* the blocks of site ids
    rtasks              \* the tasks yielded: site_ids, taxonomy_site_assets

rvars == <<rpc, site_assets_total, rc, blocks, rtasks>>

RiskInit ==
    /\ rpc = "new"
    /\ site_assets_total = << >>
    /\ rc = [taxonomies_from_model |-> FALSE, risk_models |-> Taxonomies,
             nblocks |-> 1]
    /\ blocks = << >>
    /\ rtasks = << >>

\* the configurations: every taxonomy has a risk model, or the taxonomies
\* without one are left out
RiskConfigs ==
    { [taxonomies_from_model |-> tfm, risk_models |-> rm, nblocks |-> nb] :
        tfm \in BOOLEAN, rm \in {{"A"}, Taxonomies}, nb \in 1..MaxBlocks }

\* task_arg_gen up to the loop over the blocks
RiskTaskArgGen(sat, conf) ==
    /\ rpc = "new"
    /\ Len(sat) >= 1
    /\ site_assets_total' = sat
    /\ rc' = conf
    /\ blocks' = split_on_max_weight(conf.nblocks, item_weight_pairs(sat))
    /\ rtasks' = << >>
    /\ rpc' = "yielding"

\* one turn of the loop over the blocks: the task of the next block is yielded
RiskYield ==
    /\ rpc = "yielding"
    /\ Len(rtasks) < Len(blocks)
    /\ LET site_ids == blocks[Len(rtasks) + 1]
       IN rtasks' = Append(rtasks,
              [site_ids |-> site_ids,
               taxonomy_site_assets |->
                   taxonomy_site_assets_of(EmptyTsa, site_ids,
                       site_assets_total, rc.taxonomies_from_model,
                       rc.risk_models)])
    /\ UNCHANGED <<rpc, site_assets_total, rc, blocks>>

\* the generator is exhausted
RiskExhausted ==
    /\ rpc = "yielding"
    /\ Len(rtasks) = Len(blocks)
    /\ rpc' = "exhausted"
    /\ UNCHANGED <<site_assets_total, rc, blocks, rtasks>>

(***************************************************************************)
(* The layout of the IMTs in the lists of grids.                           *)
(***************************************************************************)
\* the keys of intensity_measure_types_and_levels: strings, each a sequence
\* of the codes of its characters
PGA_str == <<80, 71, 65>>                               \* "PGA"
PGV_str == <<80, 71, 86>>                               \* "PGV"
SA_0_1_str == <<83, 65, 40, 48, 46, 49, 41>>            \* "SA(0.1)"
SA_1_0_str == <<83, 65, 40, 49, 46, 48, 41>>            \* "SA(1.0)"
SA_2_0_str == <<83, 65, 40, 50, 46, 48, 41>>            \* "SA(2.0)"
SA_10_0_str == <<83, 65, 40, 49, 48, 46, 48, 41>>       \* "SA(10.0)"
ImtStrings ==
    {PGA_str, PGV_str, SA_0_1_str, SA_1_0_str, SA_2_0_str, SA_10_0_str}

RECURSIVE StrLess(_, _)
\* a < b for two strings: the first character that differs decides, and a
\* proper prefix comes first
StrLess(a, b) ==
    IF Len(b) = 0 THEN FALSE
    ELSE IF Len(a) = 0 THEN TRUE
    ELSE IF Head(a) # Head(b) THEN Head(a) < Head(b)
    ELSE StrLess(Tail(a), Tail(b))

RECURSIVE ParseTenths(_, _)
\* float(text), in tenths: the digits before the point, then one after it
ParseTenths(text, acc) ==
    IF Len(text) = 0 THEN 10 * acc
    ELSE IF Head(text) = 46 THEN 10 * acc + (text[2] - 48)
    ELSE ParseTenths(Tail(text), 10 * acc + (Head(text) - 48))

\* hazardlib.imt.from_string: the IMT object, a tuple (imt_type, sa_period,
\* sa_damping); the period is None (here -1) for the types without one and
\* the damping, the same for every SA, is left out
from_string(str) ==
    IF Len(str) > 3 /\ SubSeq(str, 1, 3) = <<83, 65, 40>>
    THEN [imt_type |-> <<83, 65>>,
          sa_period |-> ParseTenths(SubSeq(str, 4, Len(str) - 1), 0)]
    ELSE [imt_type |-> str, sa_period |-> -1]

\* a < b for two IMT objects, compared as tuples: the type, then the period
ImtLess(a, b) ==
    \/ StrLess(a.imt_type, b.imt_type)
    \/ a.imt_type = b.imt_type /\ a.sa_period < b.sa_period

RECURSIVE sorted_strings(_)
\* sorted(self.imtls): the keys in the order of the strings
sorted_strings(S) ==
    IF S = {} THEN << >>
    ELSE LET m == CHOOSE x \in S : \A y \in S \ {x} : StrLess(x, y)
         IN <<m>> \o sorted_strings(S \ {m})

RECURSIVE sorted_imts(_)
\* sorted(imts): the IMT objects in their own order
sorted_imts(S) ==
    IF S = {} THEN << >>
    ELSE LET m == CHOOSE x \in S : \A y \in S \ {x} : ImtLess(x, y)
         IN <<m>> \o sorted_imts(S \ {m})

\* general.im_dict_to_hazardlib: the keys turned into IMT objects
im_dict_to_hazardlib(imtls_keys) == { from_string(str) : str \in imtls_keys }

VARIABLES
    ipc,          \* "new" | "configured" | "generated" | "reduced" | "saved"
    imtls,        \* the keys of self.imtls
    block_imts,   \* the IMT of the j-th grid generate_curves returned
    acc_imts,     \* the IMT whose contribution the j-th accumulator grid holds
    saved_imts    \* <<IMT string the j-th curve is saved under, IMT it holds>>

ivars == <<ipc, imtls, block_imts, acc_imts, saved_imts>>

ImtInit ==
    /\ ipc = "new"
    /\ imtls = {}
    /\ block_imts = << >>
    /\ acc_imts = << >>
    /\ saved_imts = << >>

\* the job is configured with IMTs
ImtConfigure(keys) ==
    /\ ipc = "new"
    /\ keys # {}
    /\ imtls' = keys
    /\ ipc' = "configured"
    /\ UNCHANGED <<block_imts, acc_imts, saved_imts>>

\* generate_curves: curves_by_imt is filled going through sorted(imts)
ImtGenerateCurves ==
    /\ ipc = "configured"
    /\ block_imts' = sorted_imts(im_dict_to_hazardlib(imtls))
    /\ ipc' = "generated"
    /\ UNCHANGED <<imtls, acc_imts, saved_imts>>

\* multiply_curves: the j-th grid of the result goes into acc[i][j], the
\* accumulator having one grid for each of sorted(self.imtls)
ImtMultiplyCurves ==
    /\ ipc = "generated"
    /\ acc_imts' = [j \in 1..Len(sorted_strings(imtls)) |-> block_imts[j]]
    /\ ipc' = "reduced"
    /\ UNCHANGED <<imtls, block_imts, saved_imts>>

\* save_hazard_curves: zip(sorted(self.imtls), curves_by_imt)
ImtSaveHazardCurves ==
    /\ ipc = "reduced"
    /\ saved_imts' = [j \in 1..Len(acc_imts) |->
                         <<sorted_strings(imtls)[j], acc_imts[j]>>]
    /\ ipc' = "saved"
    /\ UNCHANGED <<imtls, block_imts, acc_imts>>

(***************************************************************************)
(* Specifications: one calculator at a time.                               *)
(***************************************************************************)
xvars == <<gvars, bvars, rvars, ivars>>

\* the variables of every component but one
not_cvars == <<svars, gvars, bvars, rvars, ivars>>
not_svars == <<cvars, gvars, bvars, rvars, ivars>>
not_gvars == <<cvars, svars, bvars, rvars, ivars>>
not_bvars == <<cvars, svars, gvars, rvars, ivars>>
not_rvars == <<cvars, svars, gvars, bvars, ivars>>
not_ivars == <<cvars, svars, gvars, bvars, rvars>>

vars == <<cvars, svars, xvars>>

Init == ClassicalInit /\ ScenarioInit /\ GetterInit /\ BCRInit
        /\ RiskInit /\ ImtInit

Next ==
    \/ \E sources \in SeqsUpTo(SourceKinds, MaxSources), bs \in 1..MaxBlockSize :
          StartLtPath(sources, bs) /\ UNCHANGED not_cvars
    \/ \E t \in pending : ReduceRuptures(t) /\ UNCHANGED not_cvars
    \/ \E bs \in 1..MaxBlockSize : StartCurves(bs) /\ UNCHANGED not_cvars
    \/ \E t \in pending : ReduceCurves(t) /\ UNCHANGED not_cvars
    \/ SaveHazardCurves /\ UNCHANGED not_cvars
    \/ \E t \in pending : TaskFailure(t) /\ UNCHANGED not_cvars

Spec == Init /\ [][Next]_vars

NextScenario ==
    \/ \E seed \in 0..MaxSeed, n \in NGmfChoices :
          PreExecute(seed, n) /\ UNCHANGED not_svars
    \/ \E entropy \in RndStates : Execute(entropy) /\ UNCHANGED not_svars
    \/ \E t \in spending : ComputeGmfs(t) /\ UNCHANGED not_svars
    \/ \E t \in spending : ComputeGmfsFails(t) /\ UNCHANGED not_svars
    \/ ExecuteReturns /\ UNCHANGED not_svars
    \/ \E seed \in 0..MaxSeed, n \in NGmfChoices :
          RunAgain(seed, n) /\ UNCHANGED not_svars

SpecScenario == Init /\ [][NextScenario]_vars

NextGetter ==
    \/ \E sa \in SiteAssetsChoices, table \in TableChoices(1, NSites) :
          GetDataStart(sa, table) /\ UNCHANGED not_gvars
    \/ GetDataSite /\ UNCHANGED not_gvars
    \/ GetDataReturn /\ UNCHANGED not_gvars
    \/ GetterReset /\ UNCHANGED not_gvars

SpecGetter == Init /\ [][NextGetter]_vars

NextBCR ==
    \/ \E orig \in SeqsUpTo(OrigItems, MaxItems) \cup {<< >>},
          retro \in SeqsUpTo(RetroItems, MaxItems) \cup {<< >>} :
          BCRCall(orig, retro) /\ UNCHANGED not_bvars
    \/ BCRNext /\ UNCHANGED not_bvars

SpecBCR == Init /\ [][NextBCR]_vars

NextRisk ==
    \/ \E sat \in SiteAssetsTotalChoices(NSites), conf \in RiskConfigs :
          RiskTaskArgGen(sat, conf) /\ UNCHANGED not_rvars
    \/ RiskYield /\ UNCHANGED not_rvars
    \/ RiskExhausted /\ UNCHANGED not_rvars

SpecRisk == Init /\ [][NextRisk]_vars

NextImt ==
    \/ \E keys \in SUBSET ImtStrings : ImtConfigure(keys) /\ UNCHANGED not_ivars
    \/ ImtGenerateCurves /\ UNCHANGED not_ivars
    \/ ImtMultiplyCurves /\ UNCHANGED not_ivars
    \/ ImtSaveHazardCurves /\ UNCHANGED not_ivars

SpecImt == Init /\ [][NextImt]_vars

(***************************************************************************)
(* Properties of the classical calculator.                                 *)
(***************************************************************************)
\* the curves map_reduce has started (and its accumulator is bound)
CurvesBound == curves # <<>>
\* save_hazard_curves has just been called with curves
Saved == pc = "loop" /\ ltpath > 0
BlockResult(t) == generate_curves(task_args[t])
AllPlaceholders(res) == \A i \in Rlzs, j \in Imts : res[i][j] = None
Last(seq) == seq[Len(seq)]

RECURSIVE CurvesInTaskOrder(_)
\* the results of the delivered tasks among 1..k folded in task order
CurvesInTaskOrder(k) ==
    IF k = 0 THEN zeros
    ELSE IF k \in pending THEN CurvesInTaskOrder(k - 1)
    ELSE multiply_curves(CurvesInTaskOrder(k - 1), BlockResult(k))

\* C1: whatever the order in which map_reduce delivered the block results,
\* the accumulator equals the fold of the same results in task order, so
\* every permutation of the deliveries gives the same accumulator, for all
\* realizations and IMTs.
C1_OrderIndependent ==
    CurvesBound => curves = CurvesInTaskOrder(Len(task_args))

\* three results, not all alike and not all placeholders, delivered out of
\* task order
C1_Witness ==
    /\ pc = "curves"
    /\ pending = {}
    /\ Len(delivered) >= 3
    /\ delivered[1] > delivered[2]
    /\ \E t, u \in 1..Len(task_args) :
          /\ BlockResult(t) # BlockResult(u)
          /\ ~AllPlaceholders(BlockResult(t))
          /\ ~AllPlaceholders(BlockResult(u))

\* C2: a step of multiply_curves leaves acc[r][i] as it was where the block
\* result holds the placeholder and stores
\* 1 - (1 - acc[r][i]) * (1 - new[r][i]) elsewhere; a result made of
\* placeholders only leaves the accumulator unchanged.
C2_PlaceholderNoOp ==
    [][ (pc = "curves" /\ Len(delivered') = Len(delivered) + 1) =>
        LET new == BlockResult(Last(delivered'))
        IN /\ \A i \in Rlzs, j \in Imts :
                IF new[i][j] = None
                THEN curves'[i][j] = curves[i][j]
                ELSE \A s \in Sites, l \in Levels :
                        curves'[i][j][s][l] =
                            OneMinus(Times(OneMinus(curves[i][j][s][l]),
                                           OneMinus(new[i][j][s][l])))
           /\ AllPlaceholders(new) => curves' = curves
      ]_vars

\* the accumulator holds a contribution at an entry for which a later
\* result brought the placeholder next to a dense grid, and a result made of
\* placeholders only has been delivered as well
C2_Witness ==
    /\ pc = "curves"
    /\ \E k \in 2..Len(delivered) :
          LET new == BlockResult(delivered[k])
          IN \E i, i2 \in Rlzs, j, j2 \in Imts :
                /\ new[i][j] = None
                /\ new[i2][j2] # None
                /\ BlockResult(delivered[1])[i][j] # None
                /\ curves[i][j] # Zeros
    /\ \E k \in 2..Len(delivered) : AllPlaceholders(BlockResult(delivered[k]))

\* the calculation of the end-to-end example: two ruptures, each with
\* occurrence probability 0.1 and exceedance probability 0.5 everywhere
TwoIdenticalRuptures == ruptures = <<"A", "A">>

\* C3 (as amended): for two ruptures with occurrence probability 0.1 and
\* exceedance probability 0.5 at every level and site, the saved grid is
\* 1 - (1 - 0.1) ^ (0.5 + 0.5) = 0.1 at every level and site, however the
\* ruptures are distributed over blocks.
C3_EndToEndValue ==
    (Saved /\ TwoIdenticalRuptures) =>
        \A i \in Rlzs, j \in Imts, s \in Sites, l \in Levels :
            EqRat(curves[i][j][s][l], 1, 10)

\* C3 (as claimed): the saved grid is 1 - (1 - 0.05)^2 = 0.0975 = 39/400
C3_Original ==
    (Saved /\ TwoIdenticalRuptures) =>
        \A i \in Rlzs, j \in Imts, s \in Sites, l \in Levels :
            EqRat(curves[i][j][s][l], 39, 400)

\* the two ruptures were handled by two tasks and the result was saved
C3_Witness ==
    /\ Saved
    /\ TwoIdenticalRuptures
    /\ Len(task_args) = 2
    /\ Len(delivered) = 2

\* a grid whose entries lie in [0, 1] and do not increase along the levels
GridOK(g) ==
    \A s \in Sites, l \in Levels :
        /\ InUnitInterval(g[s][l])
        /\ l < NLevels => Leq(g[s][l + 1], g[s][l])

BlockGridsOK ==
    \A t \in 1..Len(task_args), i \in Rlzs, j \in Imts :
        BlockResult(t)[i][j] # None => GridOK(BlockResult(t)[i][j])

\* C4: when every dense block grid lies in [0, 1] and is non-increasing
\* along the levels, so is every grid of the accumulator after any sequence
\* of multiply_curves calls.
C4_GridInvariant ==
    (CurvesBound /\ BlockGridsOK) =>
        \A i \in Rlzs, j \in Imts : GridOK(curves[i][j])

\* two dense grids have been combined into a grid that strictly decreases
\* along the levels
C4_Witness ==
    /\ pc = "curves"
    /\ \E i \in Rlzs, j \in Imts, s \in Sites :
          /\ Len(delivered) >= 2
          /\ BlockResult(delivered[1])[i][j] # None
          /\ BlockResult(delivered[2])[i][j] # None
          /\ curves[i][j][s][1] # curves[i][j][s][NLevels]
          /\ ~IsZero(curves[i][j][s][NLevels])

\* rupture k of the block changes the grid at (s, l)
Contributes(kind, rlz, imt, s, l) ==
    ~IsZero(Prob(kind)) /\ GetPoes(rlz, kind, imt, s, l) > 0

RECURSIVE ProductFormula(_, _, _, _, _)
\* prod_over_ruptures((1 - occurrence_probability) ** exceedance_probability)
ProductFormula(block, rlz, imt, s, l) ==
    IF Len(block) = 0 THEN One
    ELSE Times(Power(OneMinus(Prob(Head(block))),
                     GetPoes(rlz, Head(block), imt, s, l)),
               ProductFormula(Tail(block), rlz, imt, s, l))

ExpectedGrid(block, rlz, imt) ==
    [s \in Sites |-> [l \in Levels |->
        OneMinus(ProductFormula(block, rlz, imt, s, l))]]

\* C5: generate_curves returns the placeholder for a realization and an IMT
\* exactly when 1 - prod((1 - prob) ** poe) is zero at every site and level
\* (which is when no rupture of the block has a non-zero probability and a
\* non-zero poe anywhere), and the dense grid itself otherwise; a block
\* without ruptures gives placeholders only.
C5_PlaceholderIffZero ==
    /\ AllPlaceholders(generate_curves(<< >>))
    /\ pc = "curves" =>
          \A t \in 1..Len(task_args), i \in Rlzs, j \in Imts :
              LET res == BlockResult(t)[i][j]
                  grid == ExpectedGrid(task_args[t], i, j)
              IN /\ res = None <=> AllZero(grid)
                 /\ res # None => res = grid
                 /\ AllZero(grid) <=>
                       \A k \in 1..Len(task_args[t]), s \in Sites, l \in Levels :
                           ~Contributes(task_args[t][k], i, j, s, l)

\* one task returned placeholders only for a block of ruptures, another a
\* placeholder next to a dense grid
C5_Witness ==
    /\ pc = "curves"
    /\ \E t \in 1..Len(delivered) :
          /\ Len(task_args[delivered[t]]) > 0
          /\ AllPlaceholders(BlockResult(delivered[t]))
    /\ \E t \in 1..Len(delivered), i, i2 \in Rlzs, j, j2 \in Imts :
          /\ BlockResult(delivered[t])[i][j] = None
          /\ BlockResult(delivered[t])[i2][j2] # None

\* C6: save_hazard_curves is only ever called with the accumulator that
\* holds the contribution of every dispatched task, and once a task failed
\* execute is over: nothing more is combined and nothing is saved.
C6_FailureAborts ==
    /\ [](Saved =>
            /\ pending = {}
            /\ Len(delivered) = Len(task_args)
            /\ curves = CurvesInTaskOrder(Len(task_args)))
    /\ [][pc = "failed" =>
            /\ pc' = "failed"
            /\ ltpath' = ltpath
            /\ curves' = curves
            /\ ruptures' = ruptures
            /\ delivered' = delivered]_vars

\* a generate_curves task failed after some results had been combined
C6_Witness ==
    /\ pc = "failed"
    /\ CurvesBound
    /\ delivered # << >>
    /\ pending # {}
    /\ curves # zeros

\* a <= b for fractions <<numerator, denominator>>
FracLeq(a, b) == a[1] * b[2] <= b[1] * a[2]

ProgressState ==
    /\ pc \in {"ruptures", "curves"} =>
          /\ counter = Len(delivered)
          /\ counter = Len(task_args) - Cardinality(pending)
    /\ reported # << >> =>
          /\ reported[2] > 0
          /\ 0 <= reported[1]
          /\ reported[1] <= reported[2]

\* one report per reduced result, of the fraction of the task arguments of
\* the map_reduce in progress that are completed
ReportPerResult ==
    /\ (Len(delivered') = Len(delivered) + 1) <=> (counter' = counter + 1)
    /\ counter' = counter + 1 =>
          reported' = <<Len(delivered'), Len(task_args)>>
    /\ counter' # counter + 1 => reported' = reported

Generated == spc \in {"executing", "done", "failed"}
SubSeeds == [k \in 1..Len(sargs) |-> sargs[k].task_seeds]
IsPrefix(a, b) == Len(a) <= Len(b) /\ SubSeq(b, 1, Len(a)) = a
\* this calculation repeats the random_seed of the previous one
SameSeedAsBefore == prev.run > 0 /\ prev.random_seed = hc.random_seed

\* C8: every generated task carries exactly one sub-seed (the assertion of
\* compute_gmfs never fails), there is one task per block of
\* number_of_ground_motion_fields, and two calculations with the same
\* random_seed draw the same sub-seeds in the same order: the same sequence
\* for the same number of tasks, and otherwise one sequence is the beginning
\* of the other. Every stored run of values was drawn with one of these
\* sub-seeds.
C8_DeterministicSeeding ==
    /\ serror # "AssertionError"
    /\ \A k \in 1..Len(sargs) : Len(sargs[k].task_seeds) = 1
    /\ Generated => Len(sargs) = n_tasks_for(hc.n_gmf, BLOCK_SIZE)
    /\ (Generated /\ SameSeedAsBefore) =>
          /\ Len(SubSeeds) = Len(prev.seeds) => SubSeeds = prev.seeds
          /\ IsPrefix(SubSeeds, prev.seeds) \/ IsPrefix(prev.seeds, SubSeeds)
    /\ \A r \in 1..Len(gmf_data) :
          \E k \in 1..Len(sargs) :
              gmf_data[r].gmvs[1].seed = sargs[k].task_seeds[1]

\* a calculation with several tasks has been repeated with the same
\* random_seed and the same number of tasks, and its tasks have run
C8_Witness ==
    /\ spc = "done"
    /\ SameSeedAsBefore
    /\ Len(sargs) >= 2
    /\ Len(sargs) = Len(prev.seeds)
    /\ prev.n_gmf # hc.n_gmf

\* C9 (as claimed): two complete calculations with the same random_seed and
\* the same number_of_ground_motion_fields give, for every site and IMT, the
\* same sequence of ground-motion values to ScenarioGetter.get_gmvs,
\* whatever the order in which their tasks ran and committed.
C9_Original ==
    (/\ spc = "done"
     /\ SameSeedAsBefore
     /\ prev.outcome = "done"
     /\ prev.n_gmf = hc.n_gmf) => AllGmvs = prev.gmvs

\* C10 (as claimed): when a task fails, a reader finds either no row of the
\* Gmf container or the rows of all its tasks.
C10_Original ==
    spc = "failed" =>
        \/ Len(gmf_data) = 0
        \/ Len(gmf_data) = Len(sargs) * NImts * NSites

(***************************************************************************)
(* Properties of the hazard getters.                                       *)
(***************************************************************************)
\* the site an asset belongs to (assets are named after their site)
SiteOfAsset(a) == a \div 10
\* what is stored for a site and the IMT of the getter
StoredGmvs(s) == get_gmvs(gtable, gcontainer, s, GetterImt)
\* the sites of the getter
GetterSites == { site_assets[k][1] : k \in 1..Len(site_assets) }
Range(seq) == { seq[k] : k \in 1..Len(seq) }

\* C11: when get_data returns, a site without stored ground-motion values
\* for the IMT has contributed neither assets nor arrays: the two lists have
\* the same length and the k-th array is the one of the site of the k-th
\* asset.
C11_Original ==
    gpc = "returned" =>
        /\ Len(all_assets) = Len(all_gmvs)
        /\ \A a \in Range(all_assets) : StoredGmvs(SiteOfAsset(a)) # << >>
        /\ \A k \in 1..Len(all_assets) :
              k <= Len(all_gmvs) =>
                  all_gmvs[k] = StoredGmvs(SiteOfAsset(all_assets[k]))

\* C12: when get_data returns, a warning naming the site and the IMT has
\* been logged for every site of the getter for which get_gmvs found no
\* ground-motion values, the sites without any record included.
C12_Original ==
    gpc = "returned" =>
        \A s \in GetterSites :
            StoredGmvs(s) = << >> =>
                [site_id |-> s, imt |-> GetterImt] \in Range(glog)

\* the k-th triple the composite getter has to yield
BCRTriple(k) ==
    <<orig_gen[k][1], orig_gen[k][2], <<orig_gen[k][3], retro_gen[k][3]>>>>

\* C13: BCRGetter.__call__ never raises; what it has yielded is always a
\* prefix of the pairing of the two getters, the k-th triple being (hazard id
\* and assets of the k-th original item, (k-th original value, k-th
\* retrofitted value)); when it terminates it has yielded exactly
\* min(m, n) triples.
C13_BoundedZip ==
    /\ bpc # "raised"
    /\ Len(yielded) <= Min(Len(orig_gen), Len(retro_gen))
    /\ \A k \in 1..Len(yielded) : yielded[k] = BCRTriple(k)
    /\ bpc = "done" => Len(yielded) = Min(Len(orig_gen), Len(retro_gen))

\* the composite getter has terminated after two triples, the original getter
\* having one more item to give
C13_Witness ==
    /\ bpc = "done"
    /\ Len(orig_gen) = 3
    /\ Len(retro_gen) = 2
    /\ Len(yielded) = 2

(***************************************************************************)
(* Properties of RiskCalculator.task_arg_gen.                              *)
(***************************************************************************)
RECURSIVE Concat(_)
\* the blocks put end to end
Concat(seqs) ==
    IF Len(seqs) = 0 THEN << >> ELSE Head(seqs) \o Concat(Tail(seqs))

\* the site ids of site_assets_total
TotalSites == { site_assets_total[k][1] : k \in 1..Len(site_assets_total) }
\* the number of the places of seq that hold x
Count(seq, x) == Cardinality({ k \in 1..Len(seq) : seq[k] = x })
\* the weight of a block of site ids: its number of assets
BlockWeight(site_ids) ==
    TotalWeight([k \in 1..Len(site_ids) |->
                    <<site_ids[k], Len(Lookup(site_assets_total, site_ids[k]))>>])
WeightBound ==
    max_weight_of(item_weight_pairs(site_assets_total), rc.nblocks)
\* the site lists of the tasks yielded so far, end to end
YieldedSites == Concat([k \in 1..Len(rtasks) |-> rtasks[k].site_ids])
\* the lists execute splits into blocks: sources of a logic-tree path, and
\* ruptures
SplitInputs == SeqsUpTo({"A", "B"}, MaxSources * 2) \cup {<< >>}

\* C14: the blocks partition their input. In task_arg_gen every site id of
\* site_assets_total is in exactly one block, no site list yielded holds a
\* site twice or a site of another task, every site is in the site list
\* of exactly one task once the generator is exhausted, and a block heavier
\* than the weight bound is a single site; in execute, the blocks of sources
\* and of ruptures put end to end are the list that was split, and no block
\* is empty or longer than the block size.
C14_Partition ==
    /\ rpc \in {"yielding", "exhausted"} =>
          /\ \A s \in TotalSites : Count(Concat(blocks), s) = 1
          /\ \A k \in 1..Len(Concat(blocks)) : Concat(blocks)[k] \in TotalSites
          /\ \A s \in TotalSites : Count(YieldedSites, s) <= 1
          /\ \A k \in 1..Len(rtasks) : rtasks[k].site_ids = blocks[k]
          /\ \A b \in 1..Len(blocks) :
                BlockWeight(blocks[b]) > WeightBound => Len(blocks[b]) = 1
    /\ rpc = "exhausted" => \A s \in TotalSites : Count(YieldedSites, s) = 1
    /\ \A items \in SplitInputs, bs \in 1..MaxBlockSize :
          LET split == block_split(items, bs)
          IN /\ Concat(split) = items
             /\ \A b \in 1..Len(split) : Len(split[b]) \in 1..bs

\* two tasks have been yielded, the second for a single site that is heavier
\* than the weight bound
C14_Witness ==
    /\ rpc = "exhausted"
    /\ Len(rtasks) = 2
    /\ Len(rtasks[2].site_ids) = 1
    /\ BlockWeight(rtasks[2].site_ids) > WeightBound

\* the assets stored for the sites of the tasks yielded so far whose taxonomy
\* is not left out
KeptAssets(task) ==
    { a \in UNION { Range(Lookup(site_assets_total, task.site_ids[k])) :
                       k \in 1..Len(task.site_ids) } :
        ~(rc.taxonomies_from_model /\ a.taxonomy \notin rc.risk_models) }

\* C18: in every task yielded, each asset of a site of the block whose
\* taxonomy is not left out is exactly once in
\* taxonomy_site_assets[asset.taxonomy][site_id], and no asset is under a
\* taxonomy or a site other than its own.
C18_Original ==
    \A k \in 1..Len(rtasks) :
        LET tsa == rtasks[k].taxonomy_site_assets
        IN /\ \A a \in KeptAssets(rtasks[k]) :
                 Count(tsa[a.taxonomy][SiteOfAsset(a.id)], a) = 1
           /\ \A t \in Taxonomies, s \in Sites :
                 \A a \in Range(tsa[t][s]) :
                     a.taxonomy = t /\ SiteOfAsset(a.id) = s

(***************************************************************************)
(* Block splitting and the combined curves.                                *)
(***************************************************************************)
\* a placeholder read as the all-zero grid
Dense(g) == IF g = None THEN Zeros ELSE g

RECURSIVE CutBlocks(_, _, _)
\* the blocks of items from position start on, a block ending at every
\* position of cuts and at the last one
CutBlocks(items, cuts, start) ==
    IF start > Len(items) THEN << >>
    ELSE LET end == CHOOSE e \in start..Len(items) :
                        /\ e \in cuts \/ e = Len(items)
                        /\ \A f \in start..(e - 1) : f \notin cuts
         IN <<SubSeq(items, start, end)>> \o CutBlocks(items, cuts, end + 1)

RECURSIVE FoldBlocks(_)
\* map_reduce(generate_curves, blocks, multiply_curves, zeros) with the
\* results delivered in the order of the blocks
FoldBlocks(bls) ==
    IF Len(bls) = 0 THEN zeros
    ELSE multiply_curves(FoldBlocks(SubSeq(bls, 1, Len(bls) - 1)),
                         generate_curves(bls[Len(bls)]))

\* every entry of the combined curves is a number the arithmetic represents
CurvesAreNumbers ==
    \A i \in Rlzs, j \in Imts, s \in Sites, l \in Levels :
        curves[i][j][s][l] # NotANumber

\* C16: when the curves of a logic-tree path are saved, the accumulator holds
\* for each realization and IMT the grid generate_curves gives for all the
\* ruptures as one block (a placeholder read as zeros), which is
\* 1 - prod((1 - prob) ** poe) over all the ruptures; and folding the results
\* of the blocks of any other partition of the ruptures from the all-zero
\* accumulator gives the same grids.
C16_BlockSplitEquivalence ==
    Saved =>
        /\ CurvesAreNumbers
        /\ \A i \in Rlzs, j \in Imts :
              /\ curves[i][j] = Dense(generate_curves(ruptures)[i][j])
              /\ curves[i][j] = ExpectedGrid(ruptures, i, j)
        /\ \A cuts \in SUBSET (1..(Len(ruptures) - 1)) :
              FoldBlocks(CutBlocks(ruptures, cuts, 1)) = curves

\* the curves of four ruptures, two of them contributing, were computed in
\* two blocks and saved
C16_Witness ==
    /\ Saved
    /\ Len(ruptures) = 4
    /\ Len(task_args) = 2
    /\ \E i \in Rlzs, j \in Imts : ~AllZero(curves[i][j])
    /\ \E t \in 1..2 : \E i \in Rlzs, j \in Imts : BlockResult(t)[i][j] # None

(***************************************************************************)
(* Layout of the IMTs.                                                     *)
(***************************************************************************)
\* C17: the j-th grid generate_curves returns, the j-th grid of the
\* accumulator and the j-th IMT save_hazard_curves saves under are of the
\* same IMT: every curve is saved under the IMT whose contributions it holds.
C17_Original ==
    /\ ipc \in {"generated", "reduced", "saved"} =>
          \A j \in 1..Len(block_imts) :
              block_imts[j] = from_string(sorted_strings(imtls)[j])
    /\ ipc = "saved" =>
          \A j \in 1..Len(saved_imts) :
              from_string(saved_imts[j][1]) = saved_imts[j][2]

(***************************************************************************)
(* Number of the ground-motion fields simulated.                           *)
(***************************************************************************)
\* ceil(n / BLOCK_SIZE): the least k with k * BLOCK_SIZE >= n
CeilBlocks(n) ==
    CHOOSE k \in 0..(MaxTasks + 1) :
        /\ k * BLOCK_SIZE >= n
        /\ \A j \in 0..(k - 1) : j * BLOCK_SIZE < n
\* the GmfData records of the container for a site and an IMT
GmfRecords(s, imt) ==
    SelectSeq(gmf_data,
              LAMBDA row : row.gmf_id = gmf /\ row.site_id = s /\ row.imt = imt)
RECURSIVE TotalValues(_)
\* the number of the values in a list of runs of values
TotalValues(runs) ==
    IF Len(runs) = 0 THEN 0 ELSE Head(runs).n + TotalValues(Tail(runs))
\* the number of the ground-motion values stored for a site and an IMT
StoredValues(s, imt) == TotalValues(AllGmvs[s][imt])

\* C19: for number_of_ground_motion_fields = n >= 1 the calculator
\* dispatches ceil(n / BLOCK_SIZE) tasks; every task that ran wrote one
\* GmfData record of BLOCK_SIZE values per site and IMT; when execute returns
\* ceil(n / BLOCK_SIZE) * BLOCK_SIZE values are stored per site and IMT, which
\* is never less than n and is n only when n is a multiple of BLOCK_SIZE.
C19_NumberOfGmfs ==
    /\ spc \in {"executing", "done"} =>
          /\ hc.n_gmf >= 1
          /\ Len(sargs) = CeilBlocks(hc.n_gmf)
          /\ \A s \in Sites, imt \in Imts :
                /\ Len(GmfRecords(s, imt)) = Len(sargs) - Cardinality(spending)
                /\ \A k \in 1..Len(GmfRecords(s, imt)) :
                      TotalValues(GmfRecords(s, imt)[k].gmvs) = BLOCK_SIZE
    /\ spc = "done" =>
          \A s \in Sites, imt \in Imts :
              /\ StoredValues(s, imt) = CeilBlocks(hc.n_gmf) * BLOCK_SIZE
              /\ StoredValues(s, imt) >= hc.n_gmf
              /\ StoredValues(s, imt) = hc.n_gmf <=> hc.n_gmf % BLOCK_SIZE = 0

\* a calculation of 1001 ground-motion fields has ended with 2000 values
\* stored per site and IMT
C19_Witness ==
    /\ spc = "done"
    /\ hc.n_gmf = BLOCK_SIZE + 1
    /\ Len(sargs) = 2
    /\ \A s \in Sites, imt \in Imts : StoredValues(s, imt) = 2 * BLOCK_SIZE
====
